---- MODULE Spec2Model ----
(***************************************************************************)
(* Model of eventsource-stream (src/src/lib.rs): the byte-at-a-time SSE    *)
(* parser of EventStreamTransformer::poll_next, the field parser           *)
(* Field::from_bytes, the field setter Event::set_field, and the results   *)
(* queue, driven by a wrapped byte source that answers each poll with a    *)
(* chunk, Pending, a transport error, or exhaustion.                       *)
(*                                                                         *)
(* Bytes are their integer values.  Option<T> is a sequence of length 0    *)
(* (None) or 1 (Some).  The VecDeque `results` is a sequence whose index 1 *)
(* is the front (push_front) and whose last index is the back (pop_back).  *)
(***************************************************************************)
EXTENDS Integers, Sequences, FiniteSets, TLC

\* ------------------------------------------------------------------ bounds
\* Most lines drawn from the pool for one input.
MaxLines == 2
\* Most transport failures the wrapped source reports in one run.
MaxFails == 1

\* ------------------------------------------------------------- byte values
\* b'\n' and b':' : the two bytes the dispatch of poll_next singles out.
LF == 10
COLON == 58

\* The four field names Field::from_bytes matches against.
NameEvent == <<101, 118, 101, 110, 116>>
NameData == <<100, 97, 116, 97>>
NameId == <<105, 100>>
NameRetry == <<114, 101, 116, 114, 121>>

\* ------------------------------------------------------------------- Event
\* Event::default(): event None, data empty, id None, retry None.
DefaultEvent == [event |-> <<>>, data |-> <<>>, id |-> <<>>, retry |-> <<>>]

\* Event::is_empty: equality with the default Event.
IsEmpty(ev) == ev = DefaultEvent

\* ------------------------------------------------------------------- items
\* Result<Event, ParseError> as queued, and Error::Transport as returned.
OkItem(ev) == [tag |-> "Ok", kind |-> "", bytes |-> <<>>, ev |-> ev]
ErrItem(kind, bytes) == [tag |-> "Err", kind |-> kind, bytes |-> bytes, ev |-> DefaultEvent]
TransportItem == [tag |-> "Transport", kind |-> "", bytes |-> <<>>, ev |-> DefaultEvent]
\* What poll_next returns besides an item: Poll::Pending, Poll::Ready(None),
\* and the marker of "no call has returned yet".
PendingRet == [tag |-> "Pending", kind |-> "", bytes |-> <<>>, ev |-> DefaultEvent]
NoneRet == [tag |-> "None", kind |-> "", bytes |-> <<>>, ev |-> DefaultEvent]
InitRet == [tag |-> "Init", kind |-> "", bytes |-> <<>>, ev |-> DefaultEvent]

\* ------------------------------------------------------- String::from_utf8
IsCont(b) == b >= 128 /\ b <= 191

RECURSIVE Utf8From(_, _)
\* Whether s[i..] is well-formed UTF-8 (the validation String::from_utf8 runs).
Utf8From(s, i) ==
  IF i > Len(s) THEN TRUE
  ELSE LET b == s[i]
           n == Len(s)
       IN IF b < 128 THEN Utf8From(s, i + 1)
          ELSE IF b >= 194 /\ b <= 223
            THEN i + 1 <= n /\ IsCont(s[i + 1]) /\ Utf8From(s, i + 2)
          ELSE IF b = 224
            THEN i + 2 <= n /\ s[i + 1] >= 160 /\ s[i + 1] <= 191
                 /\ IsCont(s[i + 2]) /\ Utf8From(s, i + 3)
          ELSE IF (b >= 225 /\ b <= 236) \/ b = 238 \/ b = 239
            THEN i + 2 <= n /\ IsCont(s[i + 1]) /\ IsCont(s[i + 2])
                 /\ Utf8From(s, i + 3)
          ELSE IF b = 237
            THEN i + 2 <= n /\ s[i + 1] >= 128 /\ s[i + 1] <= 159
                 /\ IsCont(s[i + 2]) /\ Utf8From(s, i + 3)
          ELSE IF b = 240
            THEN i + 3 <= n /\ s[i + 1] >= 144 /\ s[i + 1] <= 191
                 /\ IsCont(s[i + 2]) /\ IsCont(s[i + 3]) /\ Utf8From(s, i + 4)
          ELSE IF b >= 241 /\ b <= 243
            THEN i + 3 <= n /\ IsCont(s[i + 1]) /\ IsCont(s[i + 2])
                 /\ IsCont(s[i + 3]) /\ Utf8From(s, i + 4)
          ELSE IF b = 244
            THEN i + 3 <= n /\ s[i + 1] >= 128 /\ s[i + 1] <= 143
                 /\ IsCont(s[i + 2]) /\ IsCont(s[i + 3]) /\ Utf8From(s, i + 4)
          ELSE FALSE

IsUtf8(s) == Utf8From(s, 1)

\* ------------------------------------------------------ str::parse::<u64>
IsDigit(b) == b >= 48 /\ b <= 57

RECURSIVE DigitsValue(_, _)
\* The decimal value of the digit string d, accumulated left to right.
DigitsValue(d, acc) ==
  IF d = <<>> THEN acc ELSE DigitsValue(Tail(d), acc * 10 + (Head(d) - 48))

\* string.parse() to u64: None (<<>>) or Some(value).  An optional single
\* leading '+' is accepted, '-' is not, the digits must be non-empty and all
\* decimal.  (The model's inputs hold at most a few digits, far below the
\* 20 at which u64 overflows.)
ParseU64(s) ==
  IF s = <<>> THEN <<>>
  ELSE LET d == IF s[1] = 43 /\ Len(s) > 1 THEN Tail(s) ELSE s
       IN IF \A k \in 1..Len(d) : IsDigit(d[k])
          THEN <<DigitsValue(d, 0)>>
          ELSE <<>>

\* Duration::from_millis: whole seconds and the remaining nanoseconds.
FromMillis(ms) == [secs |-> ms \div 1000, nanos |-> (ms % 1000) * 1000000]

\* ------------------------------------------------------- Field::from_bytes
\* Ok(field) as [field |-> <<f>>, err |-> <<>>], Err(e) as [field |-> <<>>, err |-> <<e>>].
FromBytes(bytes) ==
  IF ~IsUtf8(bytes) THEN [field |-> <<>>, err |-> <<ErrItem("InvalidField", bytes)>>]
  ELSE IF bytes = <<>> THEN [field |-> <<>>, err |-> <<ErrItem("EmptyField", <<>>)>>]
  ELSE IF bytes = NameEvent THEN [field |-> <<"Event">>, err |-> <<>>]
  ELSE IF bytes = NameData THEN [field |-> <<"Data">>, err |-> <<>>]
  ELSE IF bytes = NameId THEN [field |-> <<"Id">>, err |-> <<>>]
  ELSE IF bytes = NameRetry THEN [field |-> <<"Retry">>, err |-> <<>>]
  ELSE [field |-> <<>>, err |-> <<ErrItem("InvalidField", bytes)>>]

\* -------------------------------------------------------- Event::set_field
\* The Event after the call and the error it returned, if any.
SetField(ev, fld, data) ==
  IF fld = <<>> THEN [event |-> ev, err |-> <<>>]
  ELSE IF fld[1] = "Event"
    THEN IF IsUtf8(data)
         THEN [event |-> [ev EXCEPT !.event = <<data>>], err |-> <<>>]
         ELSE [event |-> ev, err |-> <<ErrItem("InvalidEvent", data)>>]
  ELSE IF fld[1] = "Data"
    THEN [event |-> [ev EXCEPT !.data = ev.data \o data], err |-> <<>>]
  ELSE IF fld[1] = "Id"
    THEN [event |-> [ev EXCEPT !.id = <<data>>], err |-> <<>>]
  ELSE \* Retry
    IF IsUtf8(data) /\ ParseU64(data) # <<>>
    THEN [event |-> [ev EXCEPT !.retry = <<FromMillis(ParseU64(data)[1])>>], err |-> <<>>]
    ELSE [event |-> ev, err |-> <<ErrItem("InvalidRetry", data)>>]

\* ----------------------------------------------------------- results queue
\* VecDeque::push_front.
PushFront(q, x) == <<x>> \o q

\* Mutant of PopBack: the queue is popped at the end it is pushed on.
PopBackAtFront(q) == [item |-> q[1], rest |-> Tail(q)]

\* VecDeque::pop_back on a non-empty queue: the element removed, and the rest.
PopBack(q) == [item |-> q[Len(q)], rest |-> SubSeq(q, 1, Len(q) - 1)]

\* ------------------------------------------------------------ parser state
\* The fields of EventStreamTransformer the byte loop works on (the
\* projection `this`), with `enq`, the history of everything ever pushed on
\* `results`, and `panicked`, set when an unreachable!() arm is executed.
VARIABLES buffer, field, event, state, results, enq, panicked

\* ------------------------------------------------------------------ source
\* The wrapped stream: the bytes it will deliver in all, how many it has
\* delivered, how many transport failures it has reported, whether it has
\* reported exhaustion, and whether it was polled after that.  `cut` is the
\* history of how it cut the input: "none" while no byte was delivered, "one"
\* after one non-empty chunk, then "lines" while every non-empty chunk but
\* the last ended at a line end, and "split" once one ended inside a line.
VARIABLES input, pos, fails, srcDone, polledAfterDone, cut

\* ------------------------------------------------------------------ caller
\* pc: "idle" between calls of poll_next, "loop" at the top of its loop.
\* ret: what the last call returned.  out: every item returned so far.
VARIABLES pc, ret, out

vars == <<buffer, field, event, state, results, enq, panicked,
          input, pos, fails, srcDone, polledAfterDone, cut, pc, ret, out>>

This == [buffer |-> buffer, field |-> field, event |-> event, state |-> state,
         results |-> results, enq |-> enq, panicked |-> panicked]

\* EventStreamTransformer::wrap.
Wrap == [buffer |-> <<>>, field |-> <<>>, event |-> DefaultEvent,
         state |-> "ReadingField", results |-> <<>>, enq |-> <<>>,
         panicked |-> FALSE]

\* this.results.push_front(item), recorded in the history.
Push(p, item) ==
  [p EXCEPT !.results = PushFront(p.results, item), !.enq = Append(p.enq, item)]

\* Push every element of an Option (none or one).
PushOpt(p, opt) == IF opt = <<>> THEN p ELSE Push(p, opt[1])

\* Mutant of OnNewline: the ReadingValue arm reads the selected field without
\* taking it, so it stays selected on the next line.
OnNewlineKeepsField(p) ==
  IF p.state = "ReadingField" THEN
    [(IF p.buffer # <<>> THEN Push(p, ErrItem("UnexpectedEndOfLine", p.buffer)) ELSE p)
       EXCEPT !.buffer = <<>>, !.field = <<>>, !.state = "NextLine"]
  ELSE IF p.state = "ReadingValue" THEN
    LET r == SetField(p.event, p.field, p.buffer)
    IN [PushOpt(p, r.err)
          EXCEPT !.event = r.event, !.buffer = <<>>, !.state = "NextLine"]
  ELSE IF p.state = "NextLine" THEN
    [Push(p, OkItem(p.event))
       EXCEPT !.event = DefaultEvent, !.buffer = <<>>, !.field = <<>>,
              !.state = "ReadingField"]
  ELSE [p EXCEPT !.panicked = TRUE]

\* Mutant of OnNewline: the ReadingField arm builds the error from the buffer
\* after emptying it.
OnNewlineEmptyError(p) ==
  IF p.state = "ReadingField" THEN
    [(IF p.buffer # <<>> THEN Push(p, ErrItem("UnexpectedEndOfLine", <<>>)) ELSE p)
       EXCEPT !.buffer = <<>>, !.field = <<>>, !.state = "NextLine"]
  ELSE IF p.state = "ReadingValue" THEN
    LET r == SetField(p.event, p.field, p.buffer)
    IN [PushOpt(p, r.err)
          EXCEPT !.event = r.event, !.field = <<>>, !.buffer = <<>>,
                 !.state = "NextLine"]
  ELSE IF p.state = "NextLine" THEN
    [Push(p, OkItem(p.event))
       EXCEPT !.event = DefaultEvent, !.buffer = <<>>, !.field = <<>>,
              !.state = "ReadingField"]
  ELSE [p EXCEPT !.panicked = TRUE]

\* Mutant of OnNewline: the NextLine arm pushes a copy of the Event and keeps
\* it as the in-progress Event.
OnNewlineKeepsEvent(p) ==
  IF p.state = "ReadingField" THEN
    [(IF p.buffer # <<>> THEN Push(p, ErrItem("UnexpectedEndOfLine", p.buffer)) ELSE p)
       EXCEPT !.buffer = <<>>, !.field = <<>>, !.state = "NextLine"]
  ELSE IF p.state = "ReadingValue" THEN
    LET r == SetField(p.event, p.field, p.buffer)
    IN [PushOpt(p, r.err)
          EXCEPT !.event = r.event, !.field = <<>>, !.buffer = <<>>,
                 !.state = "NextLine"]
  ELSE IF p.state = "NextLine" THEN
    [Push(p, OkItem(p.event))
       EXCEPT !.buffer = <<>>, !.field = <<>>, !.state = "ReadingField"]
  ELSE [p EXCEPT !.panicked = TRUE]

\* The arm b'\n' of the byte dispatch.
OnNewline(p) ==
  IF p.state = "ReadingField" THEN
    [(IF p.buffer # <<>> THEN Push(p, ErrItem("UnexpectedEndOfLine", p.buffer)) ELSE p)
       EXCEPT !.buffer = <<>>, !.field = <<>>, !.state = "NextLine"]
  ELSE IF p.state = "ReadingValue" THEN
    LET r == SetField(p.event, p.field, p.buffer)
    IN [PushOpt(p, r.err)
          EXCEPT !.event = r.event, !.field = <<>>, !.buffer = <<>>,
                 !.state = "NextLine"]
  ELSE IF p.state = "NextLine" THEN
    [Push(p, OkItem(p.event))
       EXCEPT !.event = DefaultEvent, !.buffer = <<>>, !.field = <<>>,
              !.state = "ReadingField"]
  ELSE [p EXCEPT !.panicked = TRUE]

\* Mutant of OnColon: a colon at the start of a line after another line opens
\* a comment and reports nothing.
OnColonCommentSkipped(p) ==
  IF p.state = "ReadingField" THEN
    LET r == FromBytes(p.buffer)
    IN [PushOpt(p, r.err)
          EXCEPT !.field = IF r.err = <<>> THEN r.field ELSE p.field,
                 !.buffer = <<>>, !.state = "ReadingValue"]
  ELSE IF p.state = "ReadingValue" THEN
    [p EXCEPT !.buffer = Append(p.buffer, COLON)]
  ELSE IF p.state = "NextLine" THEN
    [p EXCEPT !.state = "ReadingValue"]
  ELSE [p EXCEPT !.panicked = TRUE]

\* The arm b':' of the byte dispatch.
OnColon(p) ==
  IF p.state = "ReadingField" THEN
    LET r == FromBytes(p.buffer)
    IN [PushOpt(p, r.err)
          EXCEPT !.field = IF r.err = <<>> THEN r.field ELSE p.field,
                 !.buffer = <<>>, !.state = "ReadingValue"]
  ELSE IF p.state = "ReadingValue" THEN
    [p EXCEPT !.buffer = Append(p.buffer, COLON)]
  ELSE IF p.state = "NextLine" THEN
    [Push(p, ErrItem("EmptyField", <<>>)) EXCEPT !.state = "ReadingValue"]
  ELSE [p EXCEPT !.panicked = TRUE]

\* The arm for every other byte.
OnOther(p, byte) ==
  [p EXCEPT !.state = IF p.state = "NextLine" THEN "ReadingField" ELSE p.state,
            !.buffer = Append(p.buffer, byte)]

\* One iteration of `for byte in chunk.as_ref()`.
Step(p, byte) ==
  IF byte = LF THEN OnNewline(p)
  ELSE IF byte = COLON THEN OnColon(p)
  ELSE OnOther(p, byte)

RECURSIVE FeedFrom(_, _, _)
\* The loop from byte i on; a panic (unreachable!()) ends it.
FeedFrom(p, chunk, i) ==
  IF i > Len(chunk) THEN p
  ELSE LET q == Step(p, chunk[i])
       IN IF q.panicked THEN q ELSE FeedFrom(q, chunk, i + 1)

\* Mutant of FeedChunk: the accumulation buffer is local to one chunk.
FeedChunkFreshBuffer(p, chunk) == FeedFrom([p EXCEPT !.buffer = <<>>], chunk, 1)

\* The whole `for` loop over one delivered chunk.
FeedChunk(p, chunk) == FeedFrom(p, chunk, 1)

\* ------------------------------------------------------------------ inputs
\* The lines an input is made of, as bytes.
LineDataA == NameData \o <<COLON, 97, LF>>                \* data:a\n
LineIdSp == NameId \o <<COLON, 32, 105, LF>>              \* id: i\n
LineEventUtf == NameEvent \o <<COLON, 195, 169, LF>>      \* event:<C3 A9>\n
LineRetryBad == NameRetry \o <<COLON, 32, 52, LF>>        \* retry: 4\n
LineBlank == <<LF>>                                       \* \n
LineColon == <<COLON, LF>>                                \* :\n
LineBare == <<120, LF>>                                   \* x\n
LinePartial == NameData \o <<COLON, 120>>                 \* data:x (no newline)

Lines == {LineDataA, LineIdSp, LineEventUtf, LineRetryBad, LineBlank,
          LineColon, LineBare, LinePartial}

\* Further lines, used in the fixed inputs below.
LineDataSpA == NameData \o <<COLON, 32, 97, LF>>          \* data: a\n
LineDataSpB == NameData \o <<COLON, 32, 98, LF>>          \* data: b\n
LineDataB == NameData \o <<COLON, 98, LF>>                \* data:b\n
LineEventCr == NameEvent \o <<COLON, 32, 101, 13, LF>>    \* event: e\r\n
LineEventBad == NameEvent \o <<COLON, 255, LF>>           \* event:<FF>\n
LineRetry == NameRetry \o <<COLON, 52, 50, LF>>           \* retry:42\n
LineRetrySp == NameRetry \o <<COLON, 32, 52, 50, LF>>     \* retry: 42\n
LineComment == <<COLON, 99, LF>>                          \* :c\n
LineUnknown == <<120, COLON, 118, LF>>                    \* x:v\n

\* Fixed inputs.
\* Two data lines and the blank line ending the message.
InTwoData == LineDataSpA \o LineDataSpB \o LineBlank
InTwoDataNoSp == LineDataA \o LineDataB \o LineBlank
\* An event line ended by \r\n and an id line, then exhaustion.
InFraming == LineEventCr \o LineIdSp
\* The body of the test populate_fields, with one-letter values:
\* event: e\r\ndata:a\ndata: b\n:\nid: i\n:c\rretry:42\n
InTestBody == LineEventCr \o LineDataA \o LineDataSpB \o LineColon \o LineIdSp
              \o <<COLON, 99, 13>> \o LineRetry
\* An error-only line first, then a blank line, then a message.
InErrFirst == LineBare \o LineBlank \o LineDataA \o LineBlank
\* The same without the error-only line.
InErrAbsent == LineBlank \o LineDataA \o LineBlank
\* Lines with an invalid value or an unknown name inside a message.
InBadValues == LineDataA \o LineEventBad \o LineUnknown \o LineRetry \o LineBlank
\* Comment lines and a retry with a space inside a message.
InComments == LineComment \o LineRetrySp \o LineDataA \o LineBlank \o LineBlank

\* The line `retry: 42` and the blank line ending the message.
InRetrySp == LineRetrySp \o LineBlank
\* Lines with an unknown name at the start of the stream, inside a message
\* and after a completed message.
InUnknown == LineUnknown \o LineIdSp \o LineUnknown \o LineBlank \o LineUnknown
\* A line and an unterminated line with an unknown name: data:a\nx:v
InPartialUnknown == LineDataA \o <<120, COLON, 118>>
\* A line and an unterminated line that starts with a colon: data:a\n:c
InPartialColon == LineDataA \o <<COLON, 99>>
\* An unterminated line without a colon, the only content of the input: x
InPartialName == <<120>>
\* Valid messages, each ended by a blank line, and their concatenations.
Messages == {LineDataA \o LineBlank, LineIdSp \o LineBlank,
             LineEventUtf \o LineDataB \o LineBlank}
MessagePairs == {m1 \o m2 : m1 \in Messages, m2 \in Messages}

Scenarios == {InTwoData, InTwoDataNoSp, InFraming, InTestBody, InErrFirst,
              InErrAbsent, InBadValues, InComments, InRetrySp, InUnknown,
              InPartialUnknown, InPartialColon, InPartialName}
             \cup MessagePairs

RECURSIVE Flatten(_)
Flatten(ls) == IF ls = <<>> THEN <<>> ELSE Head(ls) \o Flatten(Tail(ls))

\* Every byte sequence made of at most MaxLines lines of the pool, and the
\* fixed inputs.
Inputs == {Flatten(ls) : ls \in UNION {[1..n -> Lines] : n \in 0..MaxLines}}
          \cup Scenarios

\* ---------------------------------------------------------------- behaviour
\* The state after wrap(stream), for a stream that will deliver one of `ins`.
InitWith(ins) ==
  /\ buffer = Wrap.buffer
  /\ field = Wrap.field
  /\ event = Wrap.event
  /\ state = Wrap.state
  /\ results = Wrap.results
  /\ enq = Wrap.enq
  /\ panicked = Wrap.panicked
  /\ input \in ins
  /\ pos = 0
  /\ fails = 0
  /\ srcDone = FALSE
  /\ polledAfterDone = FALSE
  /\ cut = "none"
  /\ pc = "idle"
  /\ ret = InitRet
  /\ out = <<>>

Init == InitWith(Inputs)

\* The inputs of the fair specification: the fixed inputs, and at most
\* MaxLines lines of a smaller pool.
FairLines == {LineDataA, LineBlank, LineBare, LinePartial}
FairInputs == {Flatten(ls) : ls \in UNION {[1..n -> FairLines] : n \in 0..MaxLines}}
              \cup Scenarios
FairInit == InitWith(FairInputs)

\* The transformer's fields become those of p.
Store(p) ==
  /\ buffer' = p.buffer
  /\ field' = p.field
  /\ event' = p.event
  /\ state' = p.state
  /\ results' = p.results
  /\ enq' = p.enq
  /\ panicked' = p.panicked

\* return Poll::Ready(Some(res.map_err(Error::Parse))) after results.pop_back().
ReturnBack(p) ==
  /\ Store([p EXCEPT !.results = PopBack(p.results).rest])
  /\ ret' = PopBack(p.results).item
  /\ out' = Append(out, PopBack(p.results).item)
  /\ pc' = "idle"

\* The wrapped stream is polled once more.
SourcePolled ==
  /\ polledAfterDone' = (polledAfterDone \/ srcDone)
  /\ input' = input

\* poll_next up to its loop: drain one queued result, or report the end when
\* Closed, or go on to poll the wrapped stream.
PollNext ==
  /\ pc = "idle"
  /\ IF results # <<>> THEN ReturnBack(This)
     ELSE IF state = "Closed"
       THEN /\ ret' = NoneRet
            /\ pc' = "idle"
            /\ UNCHANGED <<buffer, field, event, state, results, enq, panicked, out>>
     ELSE /\ pc' = "loop"
          /\ UNCHANGED <<buffer, field, event, state, results, enq, panicked, ret, out>>
  /\ UNCHANGED <<input, pos, fails, srcDone, polledAfterDone, cut>>

\* Mutant of StreamPending: Pending is propagated without looking at the
\* queue.
StreamPendingNoDrain ==
  /\ pc = "loop"
  /\ SourcePolled
  /\ ret' = PendingRet
  /\ pc' = "idle"
  /\ UNCHANGED <<buffer, field, event, state, results, enq, panicked, out>>
  /\ UNCHANGED <<pos, fails, srcDone, cut>>

\* The stream answers Poll::Pending.
StreamPending ==
  /\ pc = "loop"
  /\ SourcePolled
  /\ IF results # <<>> THEN ReturnBack(This)
     ELSE /\ ret' = PendingRet
          /\ pc' = "idle"
          /\ UNCHANGED <<buffer, field, event, state, results, enq, panicked, out>>
  /\ UNCHANGED <<pos, fails, srcDone, cut>>

\* Mutant of StreamNone: the in-progress Event is flushed without the
\* is_empty test.
StreamNoneAlwaysFlush ==
  /\ pc = "loop"
  /\ pos = Len(input)
  /\ SourcePolled
  /\ srcDone' = TRUE
  /\ ReturnBack([Push(This, OkItem(event)) EXCEPT !.event = DefaultEvent,
                                                   !.state = "Closed"])
  /\ UNCHANGED <<pos, fails, cut>>

\* Mutant of StreamNone: the state is left as it was instead of Closed.
StreamNoneStaysOpen ==
  /\ pc = "loop"
  /\ pos = Len(input)
  /\ SourcePolled
  /\ srcDone' = TRUE
  /\ LET flushed == IF ~IsEmpty(event)
                    THEN [Push(This, OkItem(event)) EXCEPT !.event = DefaultEvent]
                    ELSE This
     IN IF flushed.results # <<>> THEN ReturnBack(flushed)
        ELSE /\ Store(flushed)
             /\ ret' = NoneRet
             /\ pc' = "idle"
             /\ out' = out
  /\ UNCHANGED <<pos, fails, cut>>

\* Mutant of StreamNone: a value still being read at exhaustion is applied to
\* the Event as if its line had ended.
StreamNoneFinishesLine ==
  /\ pc = "loop"
  /\ pos = Len(input)
  /\ SourcePolled
  /\ srcDone' = TRUE
  /\ LET ended == IF state = "ReadingValue" THEN OnNewline(This) ELSE This
         flushed == IF ~IsEmpty(ended.event)
                    THEN [Push(ended, OkItem(ended.event)) EXCEPT !.event = DefaultEvent]
                    ELSE ended
         closed == [flushed EXCEPT !.state = "Closed"]
     IN IF closed.results # <<>> THEN ReturnBack(closed)
        ELSE /\ Store(closed)
             /\ ret' = NoneRet
             /\ pc' = "idle"
             /\ out' = out
  /\ UNCHANGED <<pos, fails, cut>>

\* The stream answers Poll::Ready(None): it has delivered all its bytes.
StreamNone ==
  /\ pc = "loop"
  /\ pos = Len(input)
  /\ SourcePolled
  /\ srcDone' = TRUE
  /\ LET flushed == IF ~IsEmpty(event)
                    THEN [Push(This, OkItem(event)) EXCEPT !.event = DefaultEvent]
                    ELSE This
         closed == [flushed EXCEPT !.state = "Closed"]
     IN IF closed.results # <<>> THEN ReturnBack(closed)
        ELSE /\ Store(closed)
             /\ ret' = NoneRet
             /\ pc' = "idle"
             /\ out' = out
  /\ UNCHANGED <<pos, fails, cut>>

\* Mutant of StreamErr: a queued result is returned first, as for Pending, and
\* the failure is dropped.
StreamErrBehindQueue ==
  /\ pc = "loop"
  /\ fails < MaxFails
  /\ SourcePolled
  /\ fails' = fails + 1
  /\ IF results # <<>> THEN ReturnBack(This)
     ELSE /\ ret' = TransportItem
          /\ out' = Append(out, TransportItem)
          /\ pc' = "idle"
          /\ UNCHANGED <<buffer, field, event, state, results, enq, panicked>>
  /\ UNCHANGED <<pos, srcDone, cut>>

\* Mutant of StreamErr: the results queued so far are dropped with the
\* failure.
StreamErrClearsQueue ==
  /\ pc = "loop"
  /\ fails < MaxFails
  /\ SourcePolled
  /\ fails' = fails + 1
  /\ ret' = TransportItem
  /\ out' = Append(out, TransportItem)
  /\ pc' = "idle"
  /\ results' = <<>>
  /\ UNCHANGED <<buffer, field, event, state, enq, panicked, pos, srcDone, cut>>

\* The stream answers Poll::Ready(Some(Err(e))).
StreamErr ==
  /\ pc = "loop"
  /\ fails < MaxFails
  /\ SourcePolled
  /\ fails' = fails + 1
  /\ ret' = TransportItem
  /\ out' = Append(out, TransportItem)
  /\ pc' = "idle"
  /\ UNCHANGED <<buffer, field, event, state, results, enq, panicked, pos, srcDone, cut>>

\* The history of cuts after a chunk of n bytes is delivered at pos.
CutAfter(n) ==
  IF n = 0 THEN cut
  ELSE IF pos = 0 THEN "one"
  ELSE IF cut = "split" \/ input[pos] # LF THEN "split"
  ELSE "lines"

\* The stream answers Poll::Ready(Some(Ok(chunk))) with the next n bytes; every
\* byte is dispatched and the loop polls the stream again.
StreamChunk ==
  /\ pc = "loop"
  /\ SourcePolled
  /\ \E n \in 0..(Len(input) - pos) :
       /\ Store(FeedChunk(This, SubSeq(input, pos + 1, pos + n)))
       /\ pos' = pos + n
       /\ cut' = CutAfter(n)
  /\ UNCHANGED <<fails, srcDone, pc, ret, out>>

Next == PollNext \/ StreamPending \/ StreamNone \/ StreamErr \/ StreamChunk

Spec == Init /\ [][Next]_vars

\* The caller keeps pulling and the wrapped stream answers every poll.
FairSpec == FairInit /\ [][Next]_vars /\ WF_vars(Next)

\* ================================================================== claims
RECURSIVE Reverse(_)
Reverse(q) == IF q = <<>> THEN <<>> ELSE Append(Reverse(Tail(q)), Head(q))

RECURSIVE DataItems(_)
\* The Events and parse errors of a sequence of returned items.
DataItems(o) ==
  IF o = <<>> THEN <<>>
  ELSE IF Head(o).tag = "Transport" THEN DataItems(Tail(o))
  ELSE <<Head(o)>> \o DataItems(Tail(o))

\* What the pulls return, in order, when all of `bytes` arrives as one chunk
\* and the stream then ends: the queue after the chunk, oldest first, then the
\* in-progress Event if it is not empty.
SingleChunkOutput(bytes) ==
  LET p == FeedFrom(Wrap, bytes, 1)
  IN Reverse(p.results) \o (IF IsEmpty(p.event) THEN <<>> ELSE <<OkItem(p.event)>>)

\* C1: chunk-boundary invariance.  When end-of-stream is returned, the Events
\* and parse errors returned so far are exactly those returned when the same
\* bytes arrive as one single chunk, however the source cut the input and
\* whatever Pending answers and empty chunks came in between.
ChunkInvariance ==
  ret.tag = "None" => DataItems(out) = SingleChunkOutput(input)

\* C1 witness: end-of-stream after an input that was cut inside a line and
\* produced several items.
ChunkInvarianceWitness ==
  ret.tag = "None" /\ cut = "split" /\ Len(DataItems(out)) >= 2

\* C2: the results queue is FIFO and lossless.  At every moment the items
\* returned so far, followed by the queue from its back to its front, are
\* exactly the items enqueued so far, in the order they were enqueued.
QueueFifo == DataItems(out) \o Reverse(results) = enq

\* C2 witness: one chunk enqueued three or more items, two different ones
\* have been returned and one is still queued.
QueueFifoWitness ==
  /\ cut = "one"
  /\ Len(DataItems(out)) >= 2
  /\ DataItems(out)[1] # DataItems(out)[2]
  /\ results # <<>>

\* C3: every Event a pull returns is non-empty.
NoEmptyEventReturned == ret.tag = "Ok" => ~IsEmpty(ret.ev)

\* C4: the two data lines `data: a` and `data: b` of one message (with or
\* without the space after the colon) yield one Event whose data is
\* "a" + line break + "b".
TwoDataLinesJoined ==
  (input \in {InTwoData, InTwoDataNoSp} /\ ret.tag = "Ok")
    => ret.ev.data = <<97, LF, 98>>

\* C5: when the source reports exhaustion, the in-progress Event is enqueued
\* exactly when it is not empty, behind everything enqueued before; nothing
\* is enqueued afterwards; and end-of-stream is returned only once everything
\* enqueued has been returned in order, the final Event last.
FinalFlush ==
  /\ [][(~srcDone /\ srcDone')
          => enq' = IF IsEmpty(event) THEN enq ELSE Append(enq, OkItem(event))]_vars
  /\ [][srcDone => enq' = enq]_vars
  /\ [](ret.tag = "None" => (results = <<>> /\ DataItems(out) = enq))

\* C5 witness: end-of-stream after the test body, which holds no blank line:
\* its only Event is the final one, returned last, after the parse errors
\* queued before it.
FinalFlushWitness ==
  /\ input = InTestBody
  /\ ret.tag = "None"
  /\ Len(DataItems(out)) >= 2
  /\ DataItems(out)[Len(DataItems(out))].tag = "Ok"
  /\ DataItems(out)[1].tag = "Err"

\* Whether `bytes` begins with `prefix`.
StartsWith(bytes, prefix) ==
  Len(bytes) >= Len(prefix) /\ SubSeq(bytes, 1, Len(prefix)) = prefix

\* C6: parse errors are never fatal.  The parser is Closed only by the
\* exhaustion of the source, and an input whose first line is the bare name
\* `x` returns one UnexpectedEndOfLine error followed by exactly what the
\* input without that line returns.
ParseErrorsNotFatal ==
  /\ state = "Closed" => srcDone
  /\ (ret.tag = "None" /\ StartsWith(input, LineBare))
       => DataItems(out)
            = <<ErrItem("UnexpectedEndOfLine", <<120>>)>>
              \o SingleChunkOutput(SubSeq(input, Len(LineBare) + 1, Len(input)))

\* C7: the pull in which the source reports a transport failure returns the
\* Transport error, whatever the queue holds, leaves state, buffer, field,
\* Event and queue as they were, and leaves the parser open to later pulls.
TransportFrame ==
  [][fails' = fails + 1
       => /\ ret'.tag = "Transport"
          /\ UNCHANGED <<state, buffer, field, event, results>>
          /\ state' # "Closed"
          /\ pc' = "idle"]_vars

\* C7 witness: a Transport error was returned while results were queued.
TransportFrameWitness == ret.tag = "Transport" /\ results # <<>>

\* C8: once the source has reported exhaustion the transformer is Closed and
\* stays out of its loop, the source is never polled again, no unreachable
\* arm is executed, every later pull returns the oldest queued item or, the
\* queue being empty, end-of-stream, and end-of-stream is eventually returned.
ClosedForGood ==
  /\ [](srcDone => (state = "Closed" /\ pc = "idle"))
  /\ [](~polledAfterDone /\ ~panicked)
  /\ [][srcDone
          => IF results # <<>>
             THEN ret' = results[Len(results)]
                  /\ results' = SubSeq(results, 1, Len(results) - 1)
             ELSE ret' = NoneRet /\ results' = results]_vars
  /\ (srcDone ~> ret.tag = "None")

\* C8 witness: end-of-stream returned after exhaustion left two or more
\* items to drain.
ClosedForGoodWitness ==
  srcDone /\ ret.tag = "None" /\ state = "Closed" /\ Len(out) >= 3

\* C9: values are stored without the space after the colon and without the
\* carriage return before the newline: `event: e\r\n` sets event = "e" and
\* `id: i\n` sets id = "i".
FramingStripped ==
  (input = InFraming /\ ret.tag = "Ok")
    => (ret.ev.event = <<(<<101>>)>> /\ ret.ev.id = <<(<<105>>)>>)

\* The next two bytes the source delivers are the line `:` and it is
\* delivered as one chunk, starting at the start of a line.
ColonLineDelivered ==
  /\ pc = "loop"
  /\ pos + 2 <= Len(input)
  /\ pos' = pos + 2
  /\ SubSeq(input, pos + 1, pos + 2) = LineColon
  /\ (pos = 0 \/ input[pos] = LF)

CommentsIgnored ==
  (input \in {InTestBody, InComments} /\ DataItems(out) # <<>>)
    => DataItems(out)[1].tag = "Ok"

\* C12: the line `retry: 42` followed by a blank line yields an Event whose
\* retry is exactly 42 milliseconds, and no InvalidRetry error.
RetryFortyTwo ==
  (input = InRetrySp /\ DataItems(out) # <<>>)
    => DataItems(out)[1]
         = OkItem([DefaultEvent EXCEPT !.retry = <<[secs |-> 0, nanos |-> 42000000]>>])

\* The source delivers `line` as one chunk, starting at the start of a line.
LineDelivered(line) ==
  /\ pc = "loop"
  /\ pos + Len(line) <= Len(input)
  /\ pos' = pos + Len(line)
  /\ SubSeq(input, pos + 1, pos + Len(line)) = line
  /\ (pos = 0 \/ input[pos] = LF)

\* The bytes consumed last are `line`, which followed another line.
JustConsumed(line) ==
  /\ pos > Len(line)
  /\ SubSeq(input, pos - Len(line) + 1, pos) = line
  /\ input[pos - Len(line)] = LF

\* C13: a line whose name `x` is valid text but no field name enqueues exactly
\* one InvalidField error carrying the name's bytes; the in-progress Event is
\* unchanged, the line's value is discarded and no field stays selected.
UnknownFieldLine ==
  [][LineDelivered(LineUnknown)
       => /\ enq' = Append(enq, ErrItem("InvalidField", <<120>>))
          /\ event' = event
          /\ field' = <<>>
          /\ buffer' = <<>>]_vars

\* C13 witness: the line `x:v` has just been consumed inside a message whose
\* earlier lines set fields.
UnknownFieldLineWitness ==
  /\ JustConsumed(LineUnknown)
  /\ ~IsEmpty(event)
  /\ enq # <<>>
  /\ enq[Len(enq)] = ErrItem("InvalidField", <<120>>)

\* C14: no cross-message leakage.  The concatenation of two valid messages,
\* each ended by a blank line, returns what the first returns on a transformer
\* of its own followed by what the second returns on its own; and whenever a
\* blank line has just emitted a message, the in-progress Event, the buffer
\* and the selected field are fresh and the message is the last one enqueued.
NoCrossMessageLeak ==
  /\ (ret.tag = "None" /\ input \in MessagePairs)
       => \E m1 \in Messages, m2 \in Messages :
            /\ input = m1 \o m2
            /\ DataItems(out) = SingleChunkOutput(m1) \o SingleChunkOutput(m2)
  /\ (pos >= 1 /\ input[pos] = LF /\ state = "ReadingField")
       => /\ event = DefaultEvent
          /\ buffer = <<>>
          /\ field = <<>>
          /\ enq # <<>>
          /\ enq[Len(enq)].tag = "Ok"

\* C14 witness: end-of-stream after two messages with different fields, both
\* returned as non-empty Events.
NoCrossMessageLeakWitness ==
  /\ ret.tag = "None"
  /\ input = (LineEventUtf \o LineDataB \o LineBlank) \o (LineIdSp \o LineBlank)
  /\ Len(DataItems(out)) = 2
  /\ DataItems(out)[1].ev.id = <<>>
  /\ DataItems(out)[2].ev.event = <<>>
  /\ DataItems(out)[2].ev.id # <<>>

\* C15: drain before requesting more input.  The wrapped source is polled
\* only while the results queue is empty.
DrainBeforePoll == pc = "loop" => results = <<>>

\* The wrapped source answers Pending: the call returns without a failure
\* and without exhaustion.
PendingAnswered ==
  pc = "loop" /\ pc' = "idle" /\ fails' = fails /\ srcDone' = srcDone

\* C16: when the source answers Pending, the pull returns the oldest queued
\* result if there is one, and returns Pending only with the queue empty,
\* changing no parser state.
PendingOnlyWhenEmpty ==
  [][PendingAnswered
       => IF results # <<>>
          THEN /\ ret' = results[Len(results)]
               /\ results' = SubSeq(results, 1, Len(results) - 1)
               /\ out' = Append(out, ret')
          ELSE /\ ret' = PendingRet
               /\ UNCHANGED <<buffer, field, event, state, results, out>>]_vars

\* C16 witness: the only item enqueued so far was returned although the
\* source neither failed nor ended: the pull that consumed its bytes got
\* Pending and returned it.
PendingOnlyWhenEmptyWitness ==
  /\ ~srcDone
  /\ fails = 0
  /\ Len(out) = 1
  /\ out[1].tag = "Ok"
  /\ ret = out[1]
  /\ results = <<>>

\* C17: a line holding the bare name `x` and no colon enqueues exactly one
\* UnexpectedEndOfLine error carrying the bytes of the line, leaves the
\* in-progress Event unchanged and the parser in NextLine with an empty buffer
\* and no field; an empty line met in ReadingField enqueues nothing.
BareNameLine ==
  /\ [][LineDelivered(LineBare)
          => /\ enq' = Append(enq, ErrItem("UnexpectedEndOfLine", <<120>>))
             /\ event' = event
             /\ state' = "NextLine"
             /\ buffer' = <<>>
             /\ field' = <<>>]_vars
  /\ [][(LineDelivered(LineBlank) /\ state = "ReadingField")
          => /\ enq' = enq
             /\ event' = event
             /\ state' = "NextLine"]_vars

\* C17 witness: the line `x` has just been consumed inside a message whose
\* earlier lines set fields.
BareNameLineWitness ==
  /\ JustConsumed(LineBare)
  /\ ~IsEmpty(event)
  /\ state = "NextLine"
  /\ enq # <<>>
  /\ enq[Len(enq)] = ErrItem("UnexpectedEndOfLine", <<120>>)

\* C18: in NextLine the buffer is empty, and in ReadingField and NextLine no
\* field is selected: a field is selected only in ReadingValue, or in Closed
\* when the source ended there.
StateShape ==
  /\ state = "NextLine" => buffer = <<>>
  /\ state \in {"ReadingField", "NextLine"} => field = <<>>
  /\ (state = "Closed" /\ field # <<>>)
       => (input # <<>> /\ input[Len(input)] # LF)

\* C18 witness: NextLine reached at the end of a value line that set a field.
StateShapeWitness ==
  /\ state = "NextLine"
  /\ JustConsumed(LineDataA)
  /\ event.data # <<>>

\* The index of the last newline of `bytes`, 0 when it holds none.
LastLf(bytes) ==
  LET at == {k \in 1..Len(bytes) : bytes[k] = LF}
  IN IF at = {} THEN 0 ELSE CHOOSE k \in at : \A j \in at : j <= k

\* The error the first colon of the unterminated line `last` enqueued: that
\* of Field::from_bytes on the bytes before it, none without a colon or with
\* a known name.
ColonError(last) ==
  LET at == {k \in 1..Len(last) : last[k] = COLON}
  IN IF at = {} THEN <<>>
     ELSE FromBytes(SubSeq(last, 1, (CHOOSE k \in at : \A j \in at : k <= j) - 1)).err

\* The input ends inside a line.
EndsInsideLine == input # <<>> /\ input[Len(input)] # LF

\* C19 as stated: when the source is exhausted inside a line, the line sets
\* no field and produces no parse error, so what is returned is what the
\* input cut at its last newline returns.
PartialLineSilent ==
  (ret.tag = "None" /\ EndsInsideLine)
    => DataItems(out) = SingleChunkOutput(SubSeq(input, 1, LastLf(input)))

\* C19 amended: when the source is exhausted inside a line, the line sets no
\* field and exhaustion reports nothing for it; what is returned is what the
\* input cut at its last newline enqueues, then the InvalidField or
\* EmptyField error the line's first colon already enqueued if its name was
\* not a field name, then the in-progress Event of the cut input if it is
\* not empty.
PartialLineDropped ==
  (ret.tag = "None" /\ EndsInsideLine)
    => LET k == LastLf(input)
           p == FeedFrom(Wrap, SubSeq(input, 1, k), 1)
       IN DataItems(out)
            = Reverse(p.results)
              \o ColonError(SubSeq(input, k + 1, Len(input)))
              \o (IF IsEmpty(p.event) THEN <<>> ELSE <<OkItem(p.event)>>)

\* C19 witness: end-of-stream after `id: i` and the unterminated `data:x`:
\* the only item returned is the Event with the id and no data.
PartialLineDroppedWitness ==
  /\ ret.tag = "None"
  /\ input = LineIdSp \o LinePartial
  /\ DataItems(out) = <<OkItem([DefaultEvent EXCEPT !.id = <<(<<32, 105>>)>>])>>

\* C20: a transport failure loses nothing.  The pull that follows a Transport
\* error returns the oldest result queued when the failure was reported, and
\* when end-of-stream is returned after a failure every item ever enqueued
\* has been returned, in the order it was enqueued.
FailureLosesNothing ==
  /\ [][(ret.tag = "Transport" /\ pc = "idle" /\ results # <<>>)
          => /\ ret' = results[Len(results)]
             /\ out' = Append(out, results[Len(results)])
             /\ results' = SubSeq(results, 1, Len(results) - 1)]_vars
  /\ []((ret.tag = "None" /\ fails > 0) => DataItems(out) = enq)

\* C20 witness: a Transport error has just been returned while two different
\* results were queued.
FailureLosesNothingWitness ==
  /\ ret.tag = "Transport"
  /\ Len(results) >= 2
  /\ results[1] # results[2]

====
